---- MODULE Spec2Model ----
(***************************************************************************)
(* Model of the multpicstager restaging front end and its KIE.ai proxy:    *)
(*   - the proxy status handler (api/kie-check-status.js),                 *)
(*   - the direct KIE client (services/kieService.ts): checkKieTaskStatus, *)
(*     pollKieTask, restageImageWithKie,                                   *)
(*   - the proxy-based client restageImage (services/geminiService.ts),    *)
(*   - the App component: upload, edit, Restage All, single restage,       *)
(*     Clear All and the completion of processImage.                       *)
(*   - the proxy stage handler (api/kie-stage), createKieTask, the two     *)
(*     image publishers (services/imageUploadService.ts) and the prompt    *)
(*     builders of the restage services.                                   *)
(* Four specifications share the variables: SpecStatus applies the two     *)
(* status checks to provider responses, SpecPoll runs one pipeline against *)
(* a provider that answers arbitrarily, SpecApp runs the user interface,   *)
(* SpecStage applies the handlers, createKieTask, the publishers and the   *)
(* prompt builders to inputs drawn in the initial state.                   *)
(***************************************************************************)
EXTENDS Integers, Sequences, FiniteSets, TLC

VARIABLES
    req,          \* the request handed to the proxy status handler
    raw,          \* the provider's answer to the last status check
    resp,         \* the proxy status handler's response to the last check
    dres,         \* the outcome of the last checkKieTaskStatus call
    entry,        \* which function the pipeline was entered through
    pc,           \* position of the pipeline
    maxAttempts,  \* attempt budget of the polling loop
    attempts,     \* loop counter (i in pollKieTask, attempts in restageImage)
    checks,       \* status checks issued so far
    creates,      \* create-task calls issued so far
    waited,       \* milliseconds slept by the polling loop
    result,       \* value the pipeline resolved with
    err,          \* error the polling loop / pipeline body threw
    finalErr,     \* error after the catch block rewrote the message
    reported,     \* what the status checks of the pipeline reported so far
    images,       \* App state: the list of ImageFile records
    isProcessing, \* App state: the busy flag
    batch,        \* the running handleRestageAll, if any
    pipes,        \* processImage invocations in flight
    uploads,      \* number of uploads so far (ids are minted per upload)
    sreq,         \* the request handed to the proxy stage handler
    env,          \* process.env: which credentials are configured
    craw,         \* the provider's answer to a create-task request
    sresp,        \* the proxy stage handler's response
    cres,         \* the outcome of the last createKieTask call
    host,         \* the answers of the image hosts (ImgBB, Catbox)
    pub,          \* the outcome of the last publisher call
    opts,         \* room type and RestageOptions handed to a restage service
    prompt        \* the prompt that service built

statusVars == <<req, raw, resp, dres>>
pollVars   == <<entry, pc, maxAttempts, attempts, checks, creates, waited, result, err, finalErr, reported>>
appVars    == <<images, isProcessing, batch, pipes, uploads>>
stageVars  == <<sreq, env, craw, sresp, cres, host, pub, opts, prompt>>
vars       == <<statusVars, pollVars, appVars, stageVars>>

----------------------------------------------------------------------------
(* Values *)

Undefined == "<undefined>"           \* a missing JSON field / JS undefined
Urls      == {"http://x/1.png", "http://x/2.png"}

\* bounds of the model
MaxUrls     == 2     \* longest image list a provider answer carries
MaxAttemptsArg == 3  \* largest maxAttempts handed to pollKieTask directly

RECURSIVE SeqsUpTo(_, _)
SeqsUpTo(S, n) ==
    IF n = 0 THEN {<<>>}
    ELSE LET shorter == SeqsUpTo(S, n - 1)
         IN  shorter \cup {Append(s, x) : s \in {t \in shorter : Len(t) = n - 1}, x \in S}

UrlLists == SeqsUpTo(Urls, MaxUrls)

\* JS truthiness of a string-or-undefined field
Truthy(v) == v # Undefined /\ v # ""

\* a || b || c ... over a sequence of candidates, with a default
RECURSIVE FirstTruthy(_, _)
FirstTruthy(cands, default) ==
    IF cands = <<>> THEN default
    ELSE IF Truthy(Head(cands)) THEN Head(cands)
    ELSE FirstTruthy(Tail(cands), default)

----------------------------------------------------------------------------
(* Provider answers to GET recordInfo (the statusData of the handler, the  *)
(* data of checkKieTaskStatus).                                            *)

States == {"success", "successful", "completed", "fail", "failed",
           "processing", "queuing", "generating", "paused", "", Undefined}

RJAbsent    == [kind |-> "absent",    urls |-> "absent", list |-> <<>>]
RJMalformed == [kind |-> "malformed", urls |-> "absent", list |-> <<>>]
RJNoUrls    == [kind |-> "object",    urls |-> "absent", list |-> <<>>]
RJScalar    == [kind |-> "object",    urls |-> "scalar", list |-> <<>>]
RJList(L)   == [kind |-> "object",    urls |-> "list",   list |-> L]
ResultJsons == {RJAbsent, RJMalformed, RJNoUrls, RJScalar} \cup {RJList(L) : L \in UrlLists}

\* the fallback result locations, in the order the handler consults them:
\* 1 data.result.images   2 data.result.output_url  3 data.output_url
\* 4 data.images          5 result.images           6 result.output_url
\* 7 output_url           8 images
NumAlts   == 8
AltIsList == {1, 4, 5, 8}
AltInData == {1, 2, 3, 4}
Absent    == [present |-> FALSE, val |-> <<>>]
Present(L) == [present |-> TRUE, val |-> L]
NoAlts    == [i \in 1..NumAlts |-> Absent]

\* failure reason fields: 1 data.failMsg 2 data.fail_msg 3 data.error 4 error
\* failure code fields:   1 data.failCode 2 data.fail_code
NumFails  == 4
NumFCodes == 2
Reasons   == {"content policy", "no credits", "Rate limit reached", "bad API key", "401 Unauthorized"}
FailCodes == {"E42"}
NoFails   == [i \in 1..NumFails |-> Undefined]
NoFCodes  == [i \in 1..NumFCodes |-> Undefined]

BaseRaw == [http |-> "ok", json |-> TRUE, code |-> 200, hasData |-> TRUE,
            dstate |-> Undefined, tstate |-> Undefined, tstatus |-> Undefined,
            resultJson |-> RJAbsent, alts |-> NoAlts,
            fails |-> NoFails, fcodes |-> NoFCodes]

\* what JSON.parse makes of the resultJson text
ParseResultJson(rj) ==
    IF rj.kind = "object" THEN [ok |-> TRUE,  urls |-> rj.urls, list |-> rj.list]
    ELSE                       [ok |-> FALSE, urls |-> "absent", list |-> <<>>]

\* messages are sequences of text parts (concatenation = \o)
Msg(s) == <<s>>
NoMsg  == <<>>

----------------------------------------------------------------------------
(* api/kie-check-status.js *)

Response(http, success, status, hasImages, imgs, error, calls) ==
    [http |-> http, success |-> success, status |-> status,
     hasImages |-> hasImages, images |-> imgs, error |-> error,
     providerCalls |-> calls]

NoResponse == Response(0, "absent", Undefined, FALSE, <<>>, NoMsg, 0)

\* const state = statusData.data?.state || statusData.state || statusData.status
RawState(r) ==
    FirstTruthy(<<IF r.hasData THEN r.dstate ELSE Undefined, r.tstate, r.tstatus>>,
                r.tstatus)

\* the if / else-if chain that maps the provider's state
MapStateOnlyFailed(state) ==
    IF state \in {"success", "successful", "completed"} THEN "completed"
    ELSE IF state = "failed" THEN "failed"
    ELSE IF state \in {"processing", "queuing", "generating"} THEN "processing"
    ELSE state

MapState(state) ==
    IF state \in {"success", "successful", "completed"} THEN "completed"
    ELSE IF state \in {"fail", "failed"} THEN "failed"
    ELSE IF state \in {"processing", "queuing", "generating"} THEN "processing"
    ELSE state

\* resultImages after the resultJson block
FromResultJsonFirstOnly(r) ==
    IF r.hasData /\ r.resultJson.kind # "absent"
    THEN LET parsed == ParseResultJson(r.resultJson)
         IN  IF parsed.ok /\ parsed.urls = "list" /\ Len(parsed.list) > 0
             THEN <<parsed.list[1]>> ELSE <<>>
    ELSE <<>>

FromResultJson(r) ==
    IF r.hasData /\ r.resultJson.kind # "absent"
    THEN LET parsed == ParseResultJson(r.resultJson)
         IN  IF parsed.ok /\ parsed.urls = "list" THEN parsed.list ELSE <<>>
    ELSE <<>>

AltVisible(r, i) == r.alts[i].present /\ (i \in AltInData => r.hasData)

\* the else-if chain over the fallback locations, starting at location i
RECURSIVE FromAlts(_, _)
FromAlts(r, i) ==
    IF i > NumAlts THEN <<>>
    ELSE IF AltVisible(r, i) THEN r.alts[i].val
    ELSE FromAlts(r, i + 1)

ResultImages(r) ==
    LET first == FromResultJson(r)
    IN  IF Len(first) = 0 THEN FromAlts(r, 1) ELSE first

FailMsg(r) ==
    FirstTruthy(<<IF r.hasData THEN r.fails[1] ELSE Undefined,
                  IF r.hasData THEN r.fails[2] ELSE Undefined,
                  IF r.hasData THEN r.fails[3] ELSE Undefined,
                  r.fails[4]>>, "Task failed")

FailCode(r) ==
    FirstTruthy(<<IF r.hasData THEN r.fcodes[1] ELSE Undefined,
                  IF r.hasData THEN r.fcodes[2] ELSE Undefined>>, Undefined)

FailError(r) ==
    IF Truthy(FailCode(r))
    THEN <<FailMsg(r), " (Code: ", FailCode(r), ")">>
    ELSE <<FailMsg(r)>>

StatusHandler(rq, r) ==
    IF rq.method = "OPTIONS" THEN
        Response(200, "absent", Undefined, FALSE, <<>>, NoMsg, 0)
    ELSE IF rq.method # "GET" THEN
        Response(405, "absent", Undefined, FALSE, <<>>, Msg("Method not allowed"), 0)
    ELSE IF ~rq.hasTaskId THEN
        Response(400, "false", Undefined, FALSE, <<>>, Msg("Missing task ID"), 0)
    ELSE IF ~rq.hasKey THEN
        Response(500, "false", Undefined, FALSE, <<>>, Msg("Kie.ai API key not configured"), 0)
    ELSE IF r.http = "netfail" THEN
        Response(500, "false", Undefined, FALSE, <<>>, Msg("request to api.kie.ai failed"), 1)
    ELSE IF ~r.json THEN
        Response(500, "false", Undefined, FALSE, <<>>, Msg("invalid json response body"), 1)
    ELSE
        LET status == MapState(RawState(r))
        IN  IF status \in {"successful", "completed"} THEN
                Response(200, "true", "completed", TRUE, ResultImages(r), NoMsg, 1)
            ELSE IF status = "failed" THEN
                Response(200, "false", "failed", FALSE, <<>>, FailError(r), 1)
            ELSE
                Response(200, "true", "processing", FALSE, <<>>, NoMsg, 1)

----------------------------------------------------------------------------
(* services/kieService.ts: checkKieTaskStatus *)

Returned(status, urlsKind, L, error) ==
    [kind |-> "return", status |-> status, urls |-> urlsKind, imageUrls |-> L, error |-> error]
Thrown(error) ==
    [kind |-> "throw", status |-> Undefined, urls |-> "absent", imageUrls |-> <<>>, error |-> error]
NoResult == [kind |-> "none", status |-> Undefined, urls |-> "absent", imageUrls |-> <<>>, error |-> NoMsg]

HttpStatusText(r) == IF r.http = "non2xx" THEN "503 Service Unavailable" ELSE "200 OK"

checkKieTaskStatus(r) ==
    IF r.http = "netfail" THEN Thrown(Msg("Failed to fetch"))
    ELSE IF r.http # "ok" THEN Thrown(<<"KIE API error: ", HttpStatusText(r)>>)
    ELSE IF ~r.json THEN Thrown(Msg("Unexpected token in JSON"))
    ELSE IF r.code # 200 \/ ~r.hasData THEN Thrown(Msg("Failed to check task status: "))
    ELSE IF r.dstate = "success" /\ r.resultJson.kind # "absent" THEN
        LET parsed == ParseResultJson(r.resultJson)
        IN  IF ~parsed.ok THEN Thrown(Msg("Failed to parse result JSON from KIE API"))
            ELSE IF parsed.urls = "list" THEN Returned("completed", "list", parsed.list, NoMsg)
            ELSE IF parsed.urls = "scalar" THEN Returned("completed", "scalar", <<>>, NoMsg)
            ELSE Returned("completed", "list", <<>>, NoMsg)
    ELSE IF r.dstate = "fail" THEN
        Returned("failed", "absent", <<>>,
                 Msg(FirstTruthy(<<r.fails[1]>>, "Task failed without error message")))
    ELSE
        Returned("processing", "absent", <<>>, NoMsg)

----------------------------------------------------------------------------
(* Inputs of the status checks *)

GoodRequest == [method |-> "GET", hasTaskId |-> TRUE, hasKey |-> TRUE]
Requests    == [method : {"GET", "POST", "OPTIONS"}, hasTaskId : BOOLEAN, hasKey : BOOLEAN]

U1 == "http://x/1.png"
U2 == "http://x/2.png"

\* answers that vary the state vocabulary and where the state is found
StateRaws ==
    {[BaseRaw EXCEPT !.http = h, !.code = c, !.hasData = d, !.dstate = s,
                     !.tstate = t, !.tstatus = u, !.resultJson = j] :
        h \in {"ok", "non2xx"}, c \in {200, 500}, d \in BOOLEAN, s \in States,
        t \in {Undefined, "success", "failed"}, u \in {Undefined, "completed", "weird"},
        j \in {RJAbsent, RJList(<<U1>>)}}

\* values a fallback location can hold
AltValues(i) ==
    IF i \in AltIsList THEN {Absent, Present(<<>>), Present(<<U2>>)}
    ELSE {Absent, Present(<<U2>>)}

\* answers of a finished task that vary where the result images are
ResultRaws ==
    UNION {
      {[BaseRaw EXCEPT !.dstate = "success", !.hasData = d, !.tstate = "success", !.resultJson = j,
                       !.alts = [k \in 1..NumAlts |->
                                   IF k = a THEN va ELSE IF k = b THEN vb ELSE Absent]] :
          d \in BOOLEAN, j \in ResultJsons,
          va \in AltValues(a),
          vb \in {Absent, IF b \in AltIsList THEN Present(<<U1, U2>>) ELSE Present(<<U1>>)}} :
      a \in 1..NumAlts, b \in 1..NumAlts}

\* answers of a failed task that vary where the reason is
FailRaws ==
    {[BaseRaw EXCEPT !.dstate = s, !.hasData = d, !.tstate = s,
                     !.fails = [k \in 1..NumFails |->
                                  IF k = a THEN m ELSE IF k = b THEN "other reason" ELSE Undefined],
                     !.fcodes = [k \in 1..NumFCodes |-> IF k = c THEN "E42" ELSE Undefined]] :
        s \in {"fail", "failed"}, d \in BOOLEAN,
        a \in 1..NumFails, b \in 0..NumFails, c \in 0..NumFCodes,
        m \in Reasons \cup {""}}

\* answers that never reach the JSON body
BrokenRaws ==
    {[BaseRaw EXCEPT !.http = "netfail"], [BaseRaw EXCEPT !.json = FALSE],
     [BaseRaw EXCEPT !.http = "non2xx", !.json = FALSE]}

RawResponses == StateRaws \cup ResultRaws \cup FailRaws \cup BrokenRaws

----------------------------------------------------------------------------
(* Values of the stage handler (api/kie-stage), of createKieTask, of the   *)
(* image publishers and of the prompt builders.                            *)

JsTrue  == "<true>"
JsFalse == "<false>"

\* a destructuring default / a boolean test of a flag of the request body
Flag(v, default) == IF v = Undefined THEN default ELSE v = JsTrue

Modes      == {"furnish", "empty", "redesign", "enhance", "renovate",
               "day_to_dusk", "outdoor", "blue_sky"}
OtherModes == {"restyle", "FURNISH", "", "x401"}
ImageArgs  == {Undefined, "", "http://x/in.jpg", "data:image/jpeg;base64,AAAA", "AAAA"}

StageRequest(m, img, tt, fl, bd) ==
    [method |-> m, image |-> img, transformation_type |-> tt,
     space_type |-> Undefined, room_type |-> Undefined, design_style |-> Undefined,
     update_flooring |-> fl, block_decorative |-> bd]

NoStageRequest == StageRequest("none", Undefined, Undefined, Undefined, Undefined)

\* the createTask requests a handler or service has sent
NoneSent == <<>>

StageResponse(http, success, status, taskId, error, sent) ==
    [http |-> http, success |-> success, status |-> status, taskId |-> taskId,
     error |-> error, sent |-> sent]

NoStageResponse == StageResponse(0, "absent", Undefined, Undefined, NoMsg, NoneSent)

\* the task id fields of a createTask answer, in the order the stage handler
\* consults them: 1 taskId  2 task_id  3 id  4 data.taskId  5 data.task_id
NumIds == 5
NoIds  == [i \in 1..NumIds |-> Undefined]

CreateAnswer(reached, http, json, message, error, code, ids) ==
    [reached |-> reached, http |-> http, json |-> json, message |-> message,
     error |-> error, code |-> code, ids |-> ids]

NoCreateAnswer == CreateAnswer(FALSE, 0, FALSE, Undefined, Undefined, 0, NoIds)

Outcome(kind, value, error, sent) ==
    [kind |-> kind, value |-> value, error |-> error, sent |-> sent]

NoOutcome == Outcome("none", Undefined, NoMsg, NoneSent)

Environment(kie, imgbb) == [KIEAI_API_KEY |-> kie, IMGBB_API_KEY |-> imgbb]

\* the answers of the two image hosts to one upload each
HostAnswers(ir, iok, ijson, isucc, iurl, cr, cok, ctext) ==
    [imgbb  |-> [reached |-> ir, ok |-> iok, json |-> ijson, success |-> isucc, url |-> iurl],
     catbox |-> [reached |-> cr, ok |-> cok, text |-> ctext]]

NoHostAnswers == HostAnswers(FALSE, FALSE, FALSE, FALSE, Undefined, FALSE, FALSE, "")

\* which publisher ran, what it returned and which hosts it sent a request to
Published(by, kind, url, error, hosts) ==
    [by |-> by, kind |-> kind, url |-> url, error |-> error, hosts |-> hosts]

NoPublished == Published("none", "none", Undefined, NoMsg, <<>>)

RestageArgs(service, roomType, style, changePaint, paintColor, changeFlooring, flooringType, additionalInstructions) ==
    [service |-> service, roomType |-> roomType, style |-> style,
     changePaint |-> changePaint, paintColor |-> paintColor,
     changeFlooring |-> changeFlooring, flooringType |-> flooringType,
     additionalInstructions |-> additionalInstructions]

NoRestageArgs == RestageArgs("none", "", "", FALSE, "", FALSE, "", "")

StageIdle ==
    /\ sreq = NoStageRequest /\ env = Environment(TRUE, TRUE)
    /\ craw = NoCreateAnswer /\ sresp = NoStageResponse /\ cres = NoOutcome
    /\ host = NoHostAnswers /\ pub = NoPublished
    /\ opts = NoRestageArgs /\ prompt = NoMsg

----------------------------------------------------------------------------
(* SpecStatus: one provider answer, handed to the proxy status handler and *)
(* to checkKieTaskStatus.                                                  *)

PollIdle ==
    /\ entry = "none" /\ pc = "idle" /\ maxAttempts = 0 /\ attempts = 0
    /\ checks = 0 /\ creates = 0 /\ waited = 0
    /\ result = [kind |-> "none", list |-> <<>>]
    /\ err = [kind |-> "none", msg |-> NoMsg] /\ finalErr = NoMsg
    /\ reported = {}

AppIdle ==
    /\ images = <<>> /\ isProcessing = FALSE
    /\ batch = [active |-> FALSE, snapshot |-> <<>>, idx |-> 0]
    /\ pipes = <<>> /\ uploads = 0

InitStatus ==
    /\ \/ req \in Requests /\ raw \in BrokenRaws \cup {BaseRaw}
       \/ req = GoodRequest /\ raw \in RawResponses
    /\ resp = NoResponse
    /\ dres = NoResult
    /\ PollIdle
    /\ AppIdle
    /\ StageIdle

\* GET /api/kie-check-status
HandleStatusRequest ==
    /\ resp = NoResponse
    /\ resp' = StatusHandler(req, raw)
    /\ UNCHANGED <<req, raw, dres, pollVars, appVars, stageVars>>

\* checkKieTaskStatus(taskId)
CallCheckKieTaskStatus ==
    /\ dres = NoResult
    /\ req = GoodRequest
    /\ dres' = checkKieTaskStatus(raw)
    /\ UNCHANGED <<req, raw, resp, pollVars, appVars, stageVars>>

NextStatus == HandleStatusRequest \/ CallCheckKieTaskStatus

SpecStatus == InitStatus /\ [][NextStatus]_vars

----------------------------------------------------------------------------
(* The pipelines: restageImageWithKie / pollKieTask (services/kieService.ts) *)
(* and the proxy-based restageImage (services/geminiService.ts).             *)

DefaultMaxAttempts == 60     \* pollKieTask: maxAttempts = 60
IntervalMs         == 2000   \* pollKieTask: intervalMs = 2000
ProxyMaxAttempts   == 60     \* restageImage: const maxAttempts = 60
PollInterval       == 2000   \* restageImage: const pollInterval = 2000
FirstDelay         == 1000   \* restageImage: first poll after a shorter delay

IsProxy  == entry = "restageImage"
IsDirect == entry \in {"restageImageWithKie", "pollKieTask"}

NoErr == [kind |-> "none", msg |-> NoMsg]
NoValue == [kind |-> "none", list |-> <<>>]

\* String.prototype.includes over the message texts of the model
TokenParts(tok) ==
    CASE tok = "API key"      -> {"bad API key", "Kie.ai API key not configured",
                                  "Invalid Kie.ai API key. Please check your configuration.",
                                  "Unauthorized: Invalid Kie.ai API key", "Invalid API key"}
      [] tok = "credits"      -> {"no credits", "Insufficient credits in Kie.ai account",
                                  "Insufficient credits"}
      [] tok = "Rate limit"   -> {"Rate limit reached",
                                  "Rate limit exceeded. Please try again in a moment."}
      [] tok = "401"          -> {"401 Unauthorized", "401", "x401"}
      [] tok = "402"          -> {"402"}
      [] tok = "429"          -> {"429", "Too many requests (429)"}
      [] tok = "Unauthorized" -> {"401 Unauthorized", "Unauthorized: Invalid Kie.ai API key",
                                  "Unauthorized"}
      [] OTHER                -> {}

Includes(msg, tok) == \E i \in DOMAIN msg : msg[i] \in TokenParts(tok)

\* the catch block of restageImage
RewriteProxy(msg) ==
    IF Includes(msg, "API key") THEN
        Msg("The KIE.ai API key is invalid. Please check your configuration.")
    ELSE IF Includes(msg, "credits") THEN
        Msg("Insufficient credits in KIE.ai account. Please add credits.")
    ELSE IF Includes(msg, "Rate limit") THEN
        Msg("Rate limit exceeded. Please wait a moment and try again.")
    ELSE IF msg = NoMsg THEN Msg("Failed to communicate with KIE.ai API.")
    ELSE msg

\* the catch block of restageImageWithKie
RewriteDirect(msg) ==
    IF Includes(msg, "401") \/ Includes(msg, "Unauthorized") THEN
        Msg("The KIE API key is invalid. Please check your configuration.")
    ELSE IF msg = NoMsg THEN Msg("Failed to communicate with the KIE AI model.")
    ELSE msg

Rewrite(msg) ==
    IF entry = "restageImage" THEN RewriteProxy(msg)
    ELSE IF entry = "restageImageWithKie" THEN RewriteDirect(msg)
    ELSE msg

\* a pipeline that submits the task again after a failure
ThrowResubmits(kind, msg) ==
    /\ pc' = IF kind \in {"create", "failed", "timeout"} THEN "creating" ELSE "error"
    /\ err' = [kind |-> kind, msg |-> msg]
    /\ finalErr' = Rewrite(msg)
    /\ result' = result

\* leave the pipeline with an exception thrown at the place named by kind
Throw(kind, msg) ==
    /\ pc' = "error"
    /\ err' = [kind |-> kind, msg |-> msg]
    /\ finalErr' = Rewrite(msg)
    /\ result' = result

TimeoutMsg ==
    IF IsProxy THEN Msg("Task timed out after 2 minutes. Please try again.")
    ELSE <<"Task timeout after ", ToString((maxAttempts * IntervalMs) \div 1000), " seconds">>

\* a loop that allows one attempt too many
LoopTestOffByOne(att) ==
    IF att <= maxAttempts
    THEN /\ pc' = "sleeping"
         /\ attempts' = IF IsProxy THEN att + 1 ELSE att
         /\ UNCHANGED <<result, err, finalErr>>
    ELSE /\ attempts' = att
         /\ Throw("timeout", TimeoutMsg)

\* the loop condition, evaluated with the counter at att
LoopTest(att) ==
    IF att < maxAttempts
    THEN /\ pc' = "sleeping"
         /\ attempts' = IF IsProxy THEN att + 1 ELSE att
         /\ UNCHANGED <<result, err, finalErr>>
    ELSE /\ attempts' = att
         /\ Throw("timeout", TimeoutMsg)

\* "continue" / fall off the end of the loop body
KeepPolling == LoopTest(IF IsProxy THEN attempts ELSE attempts + 1)

\* answers of the provider to createTask, as createKieTask reads them
CreateRaws ==
    [http : {"ok", "401", "500", "netfail"}, code : {200, 500},
     rootTaskId : BOOLEAN, dataTaskId : BOOLEAN]

\* answers of POST /api/kie-stage, as restageImage reads them
StageResponses ==
    {[http |-> 200, success |-> TRUE,  hasTaskId |-> TRUE,  error |-> NoMsg],
     [http |-> 200, success |-> TRUE,  hasTaskId |-> FALSE, error |-> NoMsg],
     [http |-> 200, success |-> FALSE, hasTaskId |-> FALSE, error |-> NoMsg],
     [http |-> 400, success |-> FALSE, hasTaskId |-> FALSE, error |-> Msg("Missing image data")],
     [http |-> 401, success |-> FALSE, hasTaskId |-> FALSE, error |-> Msg("Unauthorized: Invalid Kie.ai API key")],
     [http |-> 402, success |-> FALSE, hasTaskId |-> FALSE, error |-> Msg("Insufficient credits in Kie.ai account")],
     [http |-> 429, success |-> FALSE, hasTaskId |-> FALSE, error |-> Msg("Rate limit exceeded. Please try again in a moment.")],
     [http |-> 500, success |-> FALSE, hasTaskId |-> FALSE, error |-> Msg("Kie.ai API key not configured")],
     [http |-> 500, success |-> FALSE, hasTaskId |-> FALSE, error |-> NoMsg]}

\* answers of the provider to the status checks of one pipeline
PollRaws ==
    {[BaseRaw EXCEPT !.dstate = s] : s \in {"processing", "queuing", "paused", "success", "successful"}}
    \cup {[BaseRaw EXCEPT !.dstate = "success", !.resultJson = j] :
            j \in {RJMalformed, RJNoUrls, RJScalar, RJList(<<>>), RJList(<<U1>>), RJList(<<U2, U1>>)}}
    \cup {[BaseRaw EXCEPT !.dstate = "completed", !.resultJson = RJList(<<U1>>)]}
    \cup {[BaseRaw EXCEPT !.dstate = "success", !.resultJson = RJList(<<U2, U1>>),
                          !.alts = [NoAlts EXCEPT ![1] = Present(<<U1>>)]]}
    \cup {[BaseRaw EXCEPT !.dstate = s, !.fails = [NoFails EXCEPT ![1] = m]] :
            s \in {"fail", "failed"}, m \in {Undefined, "content policy", "no credits", "401 Unauthorized"}}
    \cup {[BaseRaw EXCEPT !.dstate = "fail", !.fails = [NoFails EXCEPT ![1] = "content policy"],
                          !.fcodes = [NoFCodes EXCEPT ![1] = "E42"]]}
    \cup {[BaseRaw EXCEPT !.code = 500, !.hasData = FALSE]}
    \cup {[BaseRaw EXCEPT !.http = "non2xx", !.code = 500, !.hasData = FALSE]}
    \cup BrokenRaws

LinkFailed == Response(-1, "absent", Undefined, FALSE, <<>>, Msg("Failed to fetch"), 0)

InitPoll ==
    /\ req = GoodRequest /\ raw = BaseRaw /\ resp = NoResponse /\ dres = NoResult
    /\ \/ entry = "restageImageWithKie" /\ maxAttempts = DefaultMaxAttempts
       \/ entry = "pollKieTask" /\ maxAttempts \in 0..MaxAttemptsArg
       \/ entry = "restageImage" /\ maxAttempts = ProxyMaxAttempts
    /\ pc = "start" /\ attempts = 0 /\ checks = 0 /\ creates = 0 /\ waited = 0
    /\ result = NoValue /\ err = NoErr /\ finalErr = NoMsg
    /\ reported = {}
    /\ AppIdle
    /\ StageIdle

pollFrame == UNCHANGED <<req, entry, maxAttempts, appVars, stageVars>>

\* the if / else-if chain of pollKieTask over the result of a status check
PollDecisionIgnoresFailed(res) ==
    IF res.status = "completed" THEN "return"
    ELSE "continue"

PollDecision(res) ==
    IF res.status = "completed" THEN "return"
    ELSE IF res.status = "failed" THEN "throw"
    ELSE "continue"

\* the if / else-if chain of restageImage over the proxy's answer
ClientDecisionIgnoresFailed(sr) ==
    IF sr.http \notin 200..299 THEN "continue"
    ELSE IF sr.status = "completed" /\ sr.hasImages /\ Len(sr.images) > 0 THEN "return"
    ELSE "continue"

ClientDecision(sr) ==
    IF sr.http \notin 200..299 THEN "continue"
    ELSE IF sr.status = "completed" /\ sr.hasImages /\ Len(sr.images) > 0 THEN "return"
    ELSE IF sr.status = "failed" THEN "throw"
    ELSE "continue"

\* what a status check told its caller
DirectReport(res) == IF res.kind = "throw" THEN "thrown" ELSE res.status
ProxyReport(sr)   == IF sr.http \notin 200..299 THEN "http-error" ELSE sr.status

\* pollKieTask(taskId, n) called on its own: the loop starts at once
StartPoll ==
    /\ pc = "start" /\ entry = "pollKieTask"
    /\ LoopTest(0)
    /\ UNCHANGED <<raw, resp, dres, checks, creates, waited>>
    /\ UNCHANGED reported
    /\ pollFrame

\* restageImageWithKie: the prompt is built and createKieTask sends its request
StartDirect ==
    /\ pc = "start" /\ entry = "restageImageWithKie"
    /\ pc' = "creating" /\ creates' = creates + 1
    /\ UNCHANGED <<raw, resp, dres, attempts, checks, waited, result, err, finalErr>>
    /\ UNCHANGED reported
    /\ pollFrame

\* restageImage: convertToJPEG is awaited first
StartProxy ==
    /\ pc = "start" /\ entry = "restageImage"
    /\ pc' = "converting"
    /\ UNCHANGED <<raw, resp, dres, attempts, checks, creates, waited, result, err, finalErr>>
    /\ UNCHANGED reported
    /\ pollFrame

\* convertToJPEG resolves or rejects; on success POST /api/kie-stage is sent
ConvertReturns ==
    /\ pc = "converting"
    /\ \E ok \in BOOLEAN :
         IF ok THEN /\ pc' = "creating" /\ creates' = creates + 1
                    /\ UNCHANGED <<result, err, finalErr>>
         ELSE /\ Throw("convert", Msg("Failed to load image"))
              /\ creates' = creates
    /\ UNCHANGED <<raw, resp, dres, attempts, checks, waited>>
    /\ UNCHANGED reported
    /\ pollFrame

\* createKieTask gets the provider's answer
CreateReturnsDirect ==
    /\ pc = "creating" /\ IsDirect
    /\ \E c \in CreateRaws :
         IF c.http = "netfail" THEN
             attempts' = attempts /\ Throw("create", Msg("Failed to fetch"))
         ELSE IF c.http # "ok" THEN
             /\ attempts' = attempts
             /\ Throw("create", <<"KIE API error: ",
                                 IF c.http = "401" THEN "401 Unauthorized" ELSE "500 Internal Server Error">>)
         ELSE IF c.code # 200 \/ ~(c.rootTaskId \/ c.dataTaskId) THEN
             attempts' = attempts /\ Throw("create", Msg("Failed to create KIE task: "))
         ELSE LoopTest(0)
    /\ UNCHANGED <<raw, resp, dres, checks, creates, waited>>
    /\ UNCHANGED reported
    /\ pollFrame

\* restageImage gets the answer of POST /api/kie-stage (or the request fails)
CreateReturnsProxy ==
    /\ pc = "creating" /\ IsProxy
    /\ \/ attempts' = attempts /\ Throw("create", Msg("Failed to fetch"))
       \/ \E c \in StageResponses :
            IF c.http \notin 200..299 THEN
                /\ attempts' = attempts
                /\ Throw("create", IF c.error # NoMsg THEN c.error
                                   ELSE <<"Failed to create task (status ", ToString(c.http), ")">>)
            ELSE IF ~c.success \/ ~c.hasTaskId THEN
                /\ attempts' = attempts
                /\ Throw("create", IF c.error # NoMsg THEN c.error
                                   ELSE Msg("No task ID returned from KIE.ai"))
            ELSE LoopTest(0)
    /\ UNCHANGED <<raw, resp, dres, checks, creates, waited>>
    /\ UNCHANGED reported
    /\ pollFrame

\* a timer that fires whatever the pipeline is waiting for
TimerFiresAnyTime ==
    /\ pc \in {"creating", "sleeping", "checking"}
    /\ pc' = "checking"
    /\ checks' = checks + 1
    /\ waited' = waited + (IF IsProxy THEN (IF attempts > 1 THEN PollInterval ELSE FirstDelay)
                           ELSE IntervalMs)
    /\ UNCHANGED <<raw, resp, dres, attempts, creates, result, err, finalErr>>
    /\ UNCHANGED reported
    /\ pollFrame

\* the setTimeout of the current attempt fires and the status request is sent
TimerFires ==
    /\ pc = "sleeping"
    /\ pc' = "checking"
    /\ checks' = checks + 1
    /\ waited' = waited + (IF IsProxy THEN (IF attempts > 1 THEN PollInterval ELSE FirstDelay)
                           ELSE IntervalMs)
    /\ UNCHANGED <<raw, resp, dres, attempts, creates, result, err, finalErr>>
    /\ UNCHANGED reported
    /\ pollFrame

\* checkKieTaskStatus returns or throws inside pollKieTask
CheckReturnsDirect ==
    /\ pc = "checking" /\ IsDirect
    /\ \E r \in PollRaws :
         LET res == checkKieTaskStatus(r) IN
         /\ raw' = r
         /\ dres' = res
         /\ reported' = reported \cup {DirectReport(res)}
         /\ IF res.kind = "throw" THEN
                attempts' = attempts /\ Throw("check", res.error)
            ELSE IF PollDecision(res) = "return" THEN
                \* imageUrls is an array (possibly empty) or a truthy scalar
                /\ attempts' = attempts
                /\ IF entry = "pollKieTask" THEN
                       /\ pc' = "done"
                       /\ result' = [kind |-> IF res.urls = "list" THEN "urls" ELSE "scalar",
                                     list |-> res.imageUrls]
                       /\ UNCHANGED <<err, finalErr>>
                   ELSE IF res.urls = "list" /\ Len(res.imageUrls) = 0 THEN
                       Throw("noimage", Msg("No restaged image was returned from the KIE API."))
                   ELSE
                       /\ pc' = "done"
                       /\ result' = IF res.urls = "list"
                                    THEN [kind |-> "url", list |-> <<res.imageUrls[1]>>]
                                    ELSE [kind |-> "undefined", list |-> <<>>]
                       /\ UNCHANGED <<err, finalErr>>
            ELSE IF PollDecision(res) = "throw" THEN
                attempts' = attempts /\ Throw("failed", res.error)
            ELSE KeepPolling
    /\ UNCHANGED <<resp, checks, creates, waited>>
    /\ pollFrame

\* the proxy answers GET /api/kie-check-status inside restageImage
CheckReturnsProxy ==
    /\ pc = "checking" /\ IsProxy
    /\ \E r \in PollRaws :
         LET sr == StatusHandler(req, r) IN
         /\ raw' = r
         /\ resp' = sr
         /\ reported' = reported \cup {ProxyReport(sr)}
         /\ IF ClientDecision(sr) = "return" THEN
                /\ pc' = "downloading"
                /\ UNCHANGED <<attempts, result, err, finalErr>>
            ELSE IF ClientDecision(sr) = "throw" THEN
                /\ attempts' = attempts
                /\ Throw("failed", IF sr.error # NoMsg THEN sr.error ELSE Msg("Task failed at KIE.ai"))
            ELSE KeepPolling
    /\ UNCHANGED <<dres, checks, creates, waited>>
    /\ pollFrame

\* the request to the proxy itself fails: fetch rejects inside restageImage
CheckLinkFails ==
    /\ pc = "checking" /\ IsProxy
    /\ resp' = LinkFailed
    /\ reported' = reported \cup {"thrown"}
    /\ attempts' = attempts
    /\ Throw("check", Msg("Failed to fetch"))
    /\ UNCHANGED <<raw, dres, checks, creates, waited>>
    /\ pollFrame

\* urlToBase64(images[0]) resolves or rejects
DownloadReturns ==
    /\ pc = "downloading"
    /\ \E ok \in BOOLEAN :
         IF ok THEN /\ pc' = "done"
                    /\ result' = [kind |-> "base64", list |-> <<resp.images[1]>>]
                    /\ UNCHANGED <<err, finalErr>>
         ELSE Throw("download", Msg("Failed to download result image from KIE.ai"))
    /\ UNCHANGED <<raw, resp, dres, attempts, checks, creates, waited>>
    /\ UNCHANGED reported
    /\ pollFrame

NextPoll ==
    \/ StartPoll \/ StartDirect \/ StartProxy \/ ConvertReturns
    \/ CreateReturnsDirect \/ CreateReturnsProxy
    \/ TimerFires \/ CheckReturnsDirect \/ CheckReturnsProxy \/ CheckLinkFails
    \/ DownloadReturns

SpecPoll == InitPoll /\ [][NextPoll]_vars

\* every timer fires and every request is answered or fails
FairSpecPoll == SpecPoll /\ WF_vars(NextPoll)

----------------------------------------------------------------------------
(* The App component (App.tsx) and the controls of ImageCard.tsx *)

MaxImages  == 2    \* most files handed to one upload
MaxUploads == 2    \* uploads in one session
MaxPipes   == 2    \* most processImage invocations in flight at once

Null  == "<null>"
Other == "Other - describe"
RoomTypes     == {"Bedroom", Other}
DetectedTypes == {"Bedroom"}            \* what detectRoomTypeFromFilename returns
CustomLabels  == {"", " ", "Den"}
RestagedUrl   == "data:image/jpeg;base64,R"
ErrorMessages == {"Task timed out after 2 minutes. Please try again."}

\* String.prototype.trim over the labels of the model
Trim(str) ==
    CASE str = " "          -> ""
      [] str = " navy "     -> "navy"
      [] str = " add a rug " -> "add a rug"
      [] str = "https://files.catbox.moe/a.jpg\n" -> "https://files.catbox.moe/a.jpg"
      [] OTHER              -> str

\* the predicate under images.every(...) of allLabeled
LabeledNoTrim(image) ==
    /\ image.roomType # ""
    /\ \/ image.roomType # Other
       \/ image.roomType = Other /\ image.customRoomType # ""

Labeled(image) ==
    /\ image.roomType # ""
    /\ \/ image.roomType # Other
       \/ image.roomType = Other /\ image.customRoomType # "" /\ Trim(image.customRoomType) # ""

allLabeled == \A i \in DOMAIN images : Labeled(images[i])

\* disabled={isProcessing || !allLabeled} on a button rendered when images.length > 0
CanRestageAll == Len(images) > 0 /\ ~isProcessing /\ allLabeled

\* the restage buttons of a card are rendered for done (with a result) and error
CanRestageSingle(image) ==
    \/ image.status = "done" /\ image.restagedUrl # Null
    \/ image.status = "error"

\* the inputs of a card are disabled while its image is processing
CanEdit(image) == image.status # "processing"

\* an element of newImages in handleFilesSelected: id is `${Date.now()}-${index}`
NewImage(gen, index) ==
    [id |-> 10 * gen + index, roomType |-> "Bedroom", customRoomType |-> "",
     status |-> "idle", restagedUrl |-> Null, error |-> Null]

\* prevImages.map(img => img.id === id ? f(img) : img)
MapById(imgs, id, F(_)) ==
    [k \in DOMAIN imgs |-> IF imgs[k].id = id THEN F(imgs[k]) ELSE imgs[k]]

SetProcessing(image) == [image EXCEPT !.status = "processing", !.error = Null]

\* a success that writes the record back without its custom label
MarkDoneDropsLabel(image) ==
    [image EXCEPT !.restagedUrl = RestagedUrl, !.status = "done", !.customRoomType = ""]

MarkDone(image)      == [image EXCEPT !.restagedUrl = RestagedUrl, !.status = "done"]

MarkErrorKeepsStatus(image, msg) == [image EXCEPT !.error = msg]

MarkError(image, msg) == [image EXCEPT !.status = "error", !.error = msg]

\* effectiveRoomType of processImage
EffectiveRoomType(image) ==
    IF image.roomType = Other /\ image.customRoomType # ""
    THEN image.customRoomType ELSE image.roomType

\* the fields of an ImageFile that processImage reads from its argument
Closure(image) ==
    [id |-> image.id, roomType |-> image.roomType, customRoomType |-> image.customRoomType]

BatchIdle == [active |-> FALSE, snapshot |-> <<>>, idx |-> 0]

\* a processImage invocation: the ImageFile it was handed and where it is
NewPipe(image, origin) ==
    [id |-> image.id, roomType |-> image.roomType, customRoomType |-> image.customRoomType,
     phase |-> "reading", origin |-> origin]

Remove(seq, i) == SubSeq(seq, 1, i - 1) \o SubSeq(seq, i + 1, Len(seq))

InitApp ==
    /\ req = GoodRequest /\ raw = BaseRaw /\ resp = NoResponse /\ dres = NoResult
    /\ PollIdle
    /\ AppIdle
    /\ StageIdle

appFrame == UNCHANGED <<statusVars, pollVars, stageVars>>

\* handleFilesSelected(files): the uploader is rendered while the list is empty
Upload ==
    /\ Len(images) = 0
    /\ uploads < MaxUploads
    /\ \E n \in 1..MaxImages :
         images' = [i \in 1..n |-> NewImage(uploads + 1, i)]
    /\ uploads' = uploads + 1
    /\ UNCHANGED <<isProcessing, batch, pipes>>
    /\ appFrame

\* the room type select of a card: onUpdate(id, {roomType, customRoomType: ''})
UpdateRoomType ==
    /\ \E i \in DOMAIN images, rt \in RoomTypes :
         /\ CanEdit(images[i])
         /\ rt # images[i].roomType
         /\ images' = [images EXCEPT ![i] = [@ EXCEPT !.roomType = rt, !.customRoomType = ""]]
    /\ UNCHANGED <<isProcessing, batch, pipes, uploads>>
    /\ appFrame

\* the custom label input of a card: onUpdate(id, {customRoomType})
UpdateCustomRoomType ==
    /\ \E i \in DOMAIN images, label \in CustomLabels :
         /\ CanEdit(images[i])
         /\ images[i].roomType = Other
         /\ label # images[i].customRoomType
         /\ images' = [images EXCEPT ![i].customRoomType = label]
    /\ UNCHANGED <<isProcessing, batch, pipes, uploads>>
    /\ appFrame

\* handleClearAll, behind disabled={isProcessing}
ClearAll ==
    /\ Len(images) > 0
    /\ ~isProcessing
    /\ images' = <<>>
    /\ isProcessing' = FALSE
    /\ UNCHANGED <<batch, pipes, uploads>>
    /\ appFrame

\* a Restage All that starts the pipelines of all images at once
RestageAllAtOnce ==
    /\ CanRestageAll
    /\ Len(pipes) < MaxPipes
    /\ isProcessing' = TRUE
    /\ images' = [i \in DOMAIN images |-> SetProcessing(images[i])]
    /\ batch' = [active |-> TRUE, snapshot |-> [i \in DOMAIN images |-> Closure(images[i])],
                 idx |-> Len(images)]
    /\ pipes' = pipes \o [i \in DOMAIN images |-> NewPipe(images[i], "batch")]
    /\ UNCHANGED uploads
    /\ appFrame

\* handleRestageAll up to the first await inside processImage(images[0])
RestageAll ==
    /\ CanRestageAll
    /\ Len(pipes) < MaxPipes
    /\ isProcessing' = TRUE
    /\ images' = [i \in DOMAIN images |-> SetProcessing(images[i])]
    /\ batch' = [active |-> TRUE, snapshot |-> [i \in DOMAIN images |-> Closure(images[i])], idx |-> 1]
    /\ pipes' = Append(pipes, NewPipe(images[1], "batch"))
    /\ UNCHANGED uploads
    /\ appFrame

\* handleRestageSingleImage(imageId) up to the first await inside processImage
RestageSingle ==
    /\ Len(pipes) < MaxPipes
    /\ \E i \in DOMAIN images :
         /\ CanRestageSingle(images[i])
         /\ images' = MapById(images, images[i].id, SetProcessing)
         /\ pipes' = Append(pipes, NewPipe(images[i], "single"))
    /\ UNCHANGED <<isProcessing, batch, uploads>>
    /\ appFrame

\* a completion that puts its result into the list when its image is gone
FinishUpserts(i, ok, msg) ==
    LET p    == pipes[i]
        rest == Remove(pipes, i)
        Fail(image) == MarkError(image, msg)
        gone == \A k \in DOMAIN images : images[k].id # p.id
        late == [id |-> p.id, roomType |-> p.roomType, customRoomType |-> p.customRoomType,
                 status |-> "idle", restagedUrl |-> Null, error |-> Null]
    IN  /\ images' = IF gone THEN Append(images, IF ok THEN MarkDone(late) ELSE Fail(late))
                     ELSE IF ok THEN MapById(images, p.id, MarkDone)
                     ELSE MapById(images, p.id, Fail)
        /\ IF p.origin = "batch" THEN
               IF batch.idx < Len(batch.snapshot) THEN
                   /\ batch' = [batch EXCEPT !.idx = @ + 1]
                   /\ pipes' = Append(rest, NewPipe(batch.snapshot[batch.idx + 1], "batch"))
                   /\ UNCHANGED isProcessing
               ELSE
                   /\ batch' = BatchIdle
                   /\ pipes' = rest
                   /\ isProcessing' = FALSE
           ELSE
               /\ pipes' = rest
               /\ UNCHANGED <<batch, isProcessing>>

\* processImage leaves its try or its catch with setImages, and the caller
\* resumes: handleRestageAll goes on to the next image or clears the flag
Finish(i, ok, msg) ==
    LET p    == pipes[i]
        rest == Remove(pipes, i)
        Fail(image) == MarkError(image, msg)
    IN  /\ images' = IF ok THEN MapById(images, p.id, MarkDone)
                     ELSE MapById(images, p.id, Fail)
        /\ IF p.origin = "batch" THEN
               IF batch.idx < Len(batch.snapshot) THEN
                   /\ batch' = [batch EXCEPT !.idx = @ + 1]
                   /\ pipes' = Append(rest, NewPipe(batch.snapshot[batch.idx + 1], "batch"))
                   /\ UNCHANGED isProcessing
               ELSE
                   /\ batch' = BatchIdle
                   /\ pipes' = rest
                   /\ isProcessing' = FALSE
           ELSE
               /\ pipes' = rest
               /\ UNCHANGED <<batch, isProcessing>>

\* fileToBase64 resolves (restageImage is then called) or rejects
ReadReturns(i) ==
    /\ pipes[i].phase = "reading"
    /\ \/ /\ pipes' = [pipes EXCEPT ![i].phase = "restaging"]
          /\ UNCHANGED <<images, isProcessing, batch>>
       \/ Finish(i, FALSE, "Failed to read file")
    /\ UNCHANGED uploads
    /\ appFrame

\* restageImage resolves with the restaged image or rejects with an Error
RestageReturns(i) ==
    /\ pipes[i].phase = "restaging"
    /\ \/ Finish(i, TRUE, Null)
       \/ \E msg \in ErrorMessages : Finish(i, FALSE, msg)
    /\ UNCHANGED uploads
    /\ appFrame

PipelineStep(i) == ReadReturns(i) \/ RestageReturns(i)

NextApp ==
    \/ Upload \/ UpdateRoomType \/ UpdateCustomRoomType \/ ClearAll
    \/ RestageAll \/ RestageSingle
    \/ \E i \in DOMAIN pipes : ReadReturns(i)
    \/ \E i \in DOMAIN pipes : RestageReturns(i)

SpecApp == InitApp /\ [][NextApp]_vars

\* the file read and the requests of the pipeline the batch is waiting on
\* come back
BatchPipelineStep == \E i \in DOMAIN pipes : pipes[i].origin = "batch" /\ PipelineStep(i)

FairSpecApp == SpecApp /\ WF_vars(BatchPipelineStep)

----------------------------------------------------------------------------
(* api/kie-stage: the proxy stage handler *)

\* str.replace(/_/g, ' ') over the names of the model
Underscores(str) ==
    CASE str = "living_room" -> "living room"
      [] str = "dining_room" -> "dining room"
      [] str = "mid_century" -> "mid century"
      [] OTHER               -> str

\* rules.join(' ')
RECURSIVE Join(_)
Join(parts) ==
    IF parts = <<>> THEN <<>>
    ELSE IF Len(parts) = 1 THEN parts
    ELSE <<Head(parts), " ">> \o Join(Tail(parts))

\* the destructuring of req.body with its defaults
TransformationType(rq) == IF rq.transformation_type = Undefined THEN "furnish" ELSE rq.transformation_type
SpaceType(rq)  == IF rq.space_type = Undefined THEN "interior" ELSE rq.space_type
RoomName(rq)   == Underscores(IF rq.room_type = Undefined THEN "living_room" ELSE rq.room_type)
StyleName(rq)  == Underscores(IF rq.design_style = Undefined THEN "modern" ELSE rq.design_style)
UpdateFlooring(rq)  == Flag(rq.update_flooring, FALSE)
BlockDecorative(rq) == Flag(rq.block_decorative, TRUE)
SpaceTypeText(rq)   == IF SpaceType(rq) = "exterior" THEN "outdoor space" ELSE RoomName(rq)

\* the early returns of the handler, in the order of the code
StageGateInputFirst(rq, e) ==
    IF ~Truthy(rq.image) THEN "400"
    ELSE IF rq.method = "OPTIONS" THEN "options"
    ELSE IF rq.method # "POST" THEN "405"
    ELSE IF ~e.KIEAI_API_KEY THEN "500"
    ELSE "go"

StageGateKeyFirst(rq, e) ==
    IF rq.method = "OPTIONS" THEN "options"
    ELSE IF rq.method # "POST" THEN "405"
    ELSE IF ~e.KIEAI_API_KEY THEN "500"
    ELSE IF ~Truthy(rq.image) THEN "400"
    ELSE "go"

StageGate(rq, e) ==
    IF rq.method = "OPTIONS" THEN "options"
    ELSE IF rq.method # "POST" THEN "405"
    ELSE IF ~Truthy(rq.image) THEN "400"
    ELSE IF ~e.KIEAI_API_KEY THEN "500"
    ELSE "go"

\* the case the switch over transformation_type takes
ModeCaseFallsBack(tt) == IF tt \in Modes THEN tt ELSE "furnish"

ModeCase(tt) == IF tt \in Modes THEN tt ELSE "default"

FirstRules ==
    <<"Do not make any structural changes to the room (do not add or remove walls, windows, doors, or permanent fixtures).",
      "Preserve the exact room layout and architectural features.">>

\* prompt as the switch leaves it
BasePrompt(rq) ==
    LET m == ModeCase(TransformationType(rq))
        space == SpaceTypeText(rq)
        style == StyleName(rq)
    IN  CASE m = "furnish"  -> <<"Professionally stage this empty ", space,
                                 " by adding furniture and decor in a ", style,
                                 " style. Create a high-end, aesthetically pleasing result suitable for a real estate listing with enhanced lighting and beautiful furniture placement.">>
          [] m = "empty"    -> <<"Remove all furniture, decor, and movable items from this ", space,
                                 ". Show the empty room with clean walls and floors. Preserve all architectural features, windows, doors, and built-in fixtures.">>
          [] m = "redesign" -> <<"Redesign this ", space, " in a ", style,
                                 " style. Replace existing furniture and decor with new pieces that match the ", style,
                                 " aesthetic. Create a cohesive, professionally designed space suitable for real estate marketing.">>
          [] m = "enhance"  -> <<"Enhance this ", space,
                                 " photo by improving lighting, color balance, and overall visual quality. Make the space look more appealing and professional for real estate marketing. Do not add, remove, or change any furniture or decor.">>
          [] m = "renovate" -> <<"Dramatically transform and renovate this ", space, " in a ", style,
                                 " style. Apply creative AI processing to completely reimagine the space with new furniture, enhanced lighting, and a fresh design. Create a stunning, high-end result that showcases the room's potential.">>
          [] m = "day_to_dusk" -> <<"Convert this ", space,
                                 " to an evening/dusk scene. Add warm, ambient lighting with sunset or twilight tones. Make the space look cozy and inviting with appropriate evening lighting. Do not change furniture, decor, or room layout.">>
          [] m = "outdoor"  -> <<"Add outdoor furniture and decor to this ", space, " in a ", style,
                                 " style. Create an inviting outdoor living space suitable for real estate marketing.">>
          [] m = "blue_sky" -> <<"Enhance this outdoor space photo by adding a beautiful blue sky with natural clouds. Improve overall lighting and make the space look more appealing. Do not change the space itself, furniture, or landscape.">>
          [] OTHER          -> <<>>

\* rules as the switch leaves them
ModeRules(rq) ==
    LET m == ModeCase(TransformationType(rq))
    IN  FirstRules \o
        CASE m = "furnish" /\ BlockDecorative(rq) ->
                 <<"Minimize or avoid adding decorative items like plants, vases, or animals.">>
          [] m = "redesign" /\ BlockDecorative(rq) ->
                 <<"Minimize decorative items like plants, vases, or animals.">>
          [] m = "enhance" ->
                 <<"Do not add or remove any furniture or objects.",
                   "Do not change the room layout or furniture placement.">>
          [] m = "renovate" ->
                 <<"CRITICAL: Keep all windows in their exact original positions - do not move, add, remove, or resize windows.",
                   "CRITICAL: Keep all doors in their exact original positions - do not move, add, remove, or change doors.",
                   "CRITICAL: Do not modify walls, ceiling, or floor layout.">>
          [] m = "day_to_dusk" -> <<"Do not change furniture or decor.">>
          [] m = "outdoor" -> <<"Preserve all existing structures, buildings, and landscape features.">>
          [] m = "blue_sky" -> <<"Do not change the outdoor space or furniture.">>
          [] OTHER -> <<>>

FlooringClauseHead == " Update the flooring with new, stylish flooring that fits the "
FlooringRule       == "Do not change the flooring material, color, or pattern."

\* the condition under which the flooring instructions are added
FlooringAppliesNotEmpty(tt) == tt # "empty"

FlooringApplies(tt) == tt # "empty" /\ tt # "enhance" /\ tt # "day_to_dusk"

StagePrompt(rq) ==
    BasePrompt(rq) \o
    (IF FlooringApplies(TransformationType(rq)) /\ UpdateFlooring(rq)
     THEN <<FlooringClauseHead, StyleName(rq), " theme.">> ELSE <<>>)

StageRules(rq) ==
    ModeRules(rq) \o
    (IF FlooringApplies(TransformationType(rq)) /\ ~UpdateFlooring(rq)
     THEN <<FlooringRule>> ELSE <<>>)

FullPrompt(rq) == StagePrompt(rq) \o <<"\n\nIMPORTANT RULES: ">> \o Join(StageRules(rq))

\* image.startsWith(prefix) over the images of the model
StartsWith(str, prefix) ==
    CASE prefix = "http"  -> str = "http://x/in.jpg"
      [] prefix = "data:" -> str = "data:image/jpeg;base64,AAAA"
      [] OTHER            -> FALSE

ImageUrl(image) ==
    IF StartsWith(image, "http") \/ StartsWith(image, "data:") THEN <<image>>
    ELSE <<"data:image/jpeg;base64,", image>>

\* the body of the createTask request
CreateTaskRequest(promptText, imageUrl, keyed) ==
    [prompt |-> promptText, image_urls |-> <<imageUrl>>,
     authorization |-> IF keyed THEN "Bearer key" ELSE "Bearer undefined"]

\* messages a provider puts into the body of a failed createTask
ProviderMessages == {Undefined, "Unauthorized", "Invalid API key", "Insufficient credits",
                     "Too many requests (429)"}

\* taskData.taskId || taskData.task_id || taskData.id || taskData.data?.taskId || ...
StageTaskId(r) == FirstTruthy(<<r.ids[1], r.ids[2], r.ids[3], r.ids[4], r.ids[5]>>, Undefined)

\* the catch block of the handler
StageCatch(msg, sent) ==
    IF Includes(msg, "API key") THEN
        StageResponse(500, "false", Undefined, Undefined,
                      Msg("Invalid Kie.ai API key. Please check your configuration."), sent)
    ELSE IF Includes(msg, "401") THEN
        StageResponse(401, "false", Undefined, Undefined, Msg("Unauthorized: Invalid Kie.ai API key"), sent)
    ELSE IF Includes(msg, "402") THEN
        StageResponse(402, "false", Undefined, Undefined, Msg("Insufficient credits in Kie.ai account"), sent)
    ELSE IF Includes(msg, "429") THEN
        StageResponse(429, "false", Undefined, Undefined,
                      Msg("Rate limit exceeded. Please try again in a moment."), sent)
    ELSE
        StageResponse(500, "false", Undefined, Undefined,
                      IF msg = NoMsg \/ msg = <<"">> THEN Msg("Failed to stage image with Kie.ai") ELSE msg,
                      sent)

\* the try block: prompt, createTask request, reading of the answer
StageTry(rq, e, r) ==
    IF ModeCase(TransformationType(rq)) = "default" THEN
        StageCatch(<<"Unknown transformation type: ", TransformationType(rq)>>, NoneSent)
    ELSE
        LET sent == <<CreateTaskRequest(FullPrompt(rq), ImageUrl(rq.image), e.KIEAI_API_KEY)>>
        IN  IF ~r.reached THEN StageCatch(Msg("request to api.kie.ai failed"), sent)
            ELSE IF ~r.json THEN StageCatch(Msg("invalid json response body"), sent)
            ELSE IF r.http \notin 200..299 THEN
                StageCatch(IF Truthy(r.message) THEN Msg(r.message)
                           ELSE IF Truthy(r.error) THEN Msg(r.error)
                           ELSE <<"Failed to create task at Kie.ai (status ", ToString(r.http), ")">>,
                           sent)
            ELSE IF ~Truthy(StageTaskId(r)) THEN
                StageCatch(Msg("No task ID returned from Kie.ai"), sent)
            ELSE StageResponse(200, "true", "processing", StageTaskId(r), NoMsg, sent)

StageHandler(rq, e, r) ==
    LET gate == StageGate(rq, e)
    IN  CASE gate = "options" -> StageResponse(200, "absent", Undefined, Undefined, NoMsg, NoneSent)
          [] gate = "405" -> StageResponse(405, "absent", Undefined, Undefined,
                                           Msg("Method not allowed"), NoneSent)
          [] gate = "400" -> StageResponse(400, "false", Undefined, Undefined,
                                           Msg("Missing image data"), NoneSent)
          [] gate = "500" -> StageResponse(500, "false", Undefined, Undefined,
                                           Msg("Kie.ai API key not configured"), NoneSent)
          [] OTHER -> StageTry(rq, e, r)

----------------------------------------------------------------------------
(* services/kieService.ts: createKieTask *)

StatusText(http) ==
    CASE http = 401 -> "Unauthorized"
      [] http = 402 -> "Payment Required"
      [] http = 429 -> "Too Many Requests"
      [] http = 500 -> "Internal Server Error"
      [] OTHER      -> "OK"

createKieTask(e, imageUrl, promptText, r) ==
    LET sent == <<CreateTaskRequest(promptText, imageUrl, e.KIEAI_API_KEY)>>
        taskId == FirstTruthy(<<r.ids[1], r.ids[4]>>, Undefined)
    IN  IF ~r.reached THEN Outcome("throw", Undefined, Msg("Failed to fetch"), sent)
        ELSE IF r.http \notin 200..299 THEN
            Outcome("throw", Undefined,
                    <<"KIE API error: ", ToString(r.http), " ", StatusText(r.http)>>, sent)
        ELSE IF ~r.json THEN Outcome("throw", Undefined, Msg("Unexpected token in JSON"), sent)
        ELSE IF r.code # 200 \/ ~Truthy(taskId) THEN
            Outcome("throw", Undefined, Msg("Failed to create KIE task: "), sent)
        ELSE Outcome("return", taskId, NoMsg, sent)

----------------------------------------------------------------------------
(* services/imageUploadService.ts: the two publishers *)

\* the catch block of both publishers
UploadFailed(by, inner, hosts) ==
    Published(by, "throw", Undefined, <<"Image upload failed: ">> \o inner, hosts)

uploadBase64ToImgBB(e, h) ==
    IF ~e.IMGBB_API_KEY THEN
        Published("imgbb", "throw", Undefined,
                  Msg("ImgBB API key is not configured. Please set IMGBB_API_KEY environment variable."),
                  <<>>)
    ELSE IF ~h.imgbb.reached THEN UploadFailed("imgbb", Msg("Failed to fetch"), <<"imgbb">>)
    ELSE IF ~h.imgbb.ok THEN
        UploadFailed("imgbb", <<"ImgBB API error: ", "500 Internal Server Error">>, <<"imgbb">>)
    ELSE IF ~h.imgbb.json THEN UploadFailed("imgbb", Msg("Unexpected token in JSON"), <<"imgbb">>)
    ELSE IF ~h.imgbb.success \/ ~Truthy(h.imgbb.url) THEN
        UploadFailed("imgbb", Msg("Failed to upload image to ImgBB"), <<"imgbb">>)
    ELSE Published("imgbb", "return", h.imgbb.url, NoMsg, <<"imgbb">>)

\* url.startsWith('https://') over the answers of the model
IsHttps(text) == text \in {"https://files.catbox.moe/a.jpg", "https://files.catbox.moe/a.jpg\n"}

uploadBase64ToCatbox(h) ==
    IF ~h.catbox.reached THEN UploadFailed("catbox", Msg("Failed to fetch"), <<"catbox">>)
    ELSE IF ~h.catbox.ok THEN
        UploadFailed("catbox", <<"Catbox API error: ", "500 Internal Server Error">>, <<"catbox">>)
    ELSE IF ~Truthy(h.catbox.text) \/ ~IsHttps(h.catbox.text) THEN
        UploadFailed("catbox", Msg("Invalid response from Catbox"), <<"catbox">>)
    ELSE Published("catbox", "return", Trim(h.catbox.text), NoMsg, <<"catbox">>)

----------------------------------------------------------------------------
(* The prompt of restageImageWithKie (services/kieService.ts) and of the   *)
(* Gemini restageImage (services/geminiService.ts, first version).         *)

\* options.x && options.x.trim()
ProvidedUntrimmed(v) == Truthy(v)

Provided(v) == Truthy(v) /\ Truthy(Trim(v))

\* the value a clause inserts
Inserted(v) == Trim(v)

StructuralRule ==
    "Do not make any structural changes to the room (e.g., do not add or remove walls, windows, islands, or permanent fixtures)."
NamedPaintHead   == " Repaint the walls a "
GenericPaintHead == " Repaint the walls with a new, stylish, and complementary color that fits the "
NoPaintRule      == "Do not change the wall paint color."
NewFlooringHead  == " Replace the flooring with new "
NoFlooringRule   == "Do not change the flooring."
InstructionsHead == " Also, follow these specific user instructions: \""

PaintClause(o) ==
    IF o.changePaint THEN
        IF Provided(o.paintColor)
        THEN <<NamedPaintHead, Inserted(o.paintColor), " color.">>
        ELSE <<GenericPaintHead, o.style, " theme.">>
    ELSE <<>>

FlooringClause(o) ==
    IF o.changeFlooring
    THEN <<NewFlooringHead, o.flooringType, " that fits the ", o.style, " theme.">>
    ELSE <<>>

InstructionsClause(o) ==
    IF Provided(o.additionalInstructions)
    THEN <<InstructionsHead, Inserted(o.additionalInstructions), "\".">>
    ELSE <<>>

RestageRules(o) ==
    <<StructuralRule>>
    \o (IF o.changePaint THEN <<>> ELSE <<NoPaintRule>>)
    \o (IF o.changeFlooring THEN <<>> ELSE <<NoFlooringRule>>)

\* fullPrompt of restageImageWithKie
KiePrompt(o) ==
    <<"Professionally restage this ", o.roomType, " in a ", o.style,
      " style. Enhance the lighting, furniture, and decor to create a high-end, aesthetically pleasing result suitable for a real estate listing.">>
    \o PaintClause(o) \o FlooringClause(o) \o InstructionsClause(o)
    \o <<" IMPORTANT: ">> \o Join(RestageRules(o))

\* fullPrompt of the Gemini restageImage: the same text, built by its own copy
GeminiPrompt(o) ==
    <<"Professionally restage this ", o.roomType, " in a ", o.style,
      " style. Enhance the lighting, furniture, and decor to create a high-end, aesthetically pleasing result suitable for a real estate listing.">>
    \o (IF o.changePaint THEN
            IF Truthy(o.paintColor) /\ Truthy(Trim(o.paintColor))
            THEN <<NamedPaintHead, Trim(o.paintColor), " color.">>
            ELSE <<GenericPaintHead, o.style, " theme.">>
        ELSE <<>>)
    \o (IF o.changeFlooring
        THEN <<NewFlooringHead, o.flooringType, " that fits the ", o.style, " theme.">>
        ELSE <<>>)
    \o (IF Truthy(o.additionalInstructions) /\ Truthy(Trim(o.additionalInstructions))
        THEN <<InstructionsHead, Trim(o.additionalInstructions), "\".">>
        ELSE <<>>)
    \o <<" IMPORTANT: ">> \o Join(RestageRules(o))

BuiltPrompt(o) == IF o.service = "gemini" THEN GeminiPrompt(o) ELSE KiePrompt(o)

----------------------------------------------------------------------------
(* SpecStage: one call of each proxy handler, of createKieTask, of each    *)
(* publisher and of a prompt builder, on inputs drawn in the initial state. *)

StageRequests ==
    {StageRequest(m, img, tt, fl, bd) :
        m \in {"POST", "GET", "OPTIONS", "PUT"}, img \in ImageArgs,
        tt \in Modes \cup OtherModes \cup {Undefined},
        fl \in {Undefined, JsTrue, JsFalse}, bd \in {Undefined, JsTrue, JsFalse}}

\* requests as restageImage sends them, over the rooms and styles it maps to
ClientRequests ==
    {[StageRequest("POST", "data:image/jpeg;base64,AAAA", tt, fl, JsTrue)
        EXCEPT !.space_type = sp, !.room_type = rm, !.design_style = st] :
        tt \in {"furnish", "outdoor", "restyle"}, fl \in {JsTrue, JsFalse},
        sp \in {"interior", "exterior"}, rm \in {"living_room", "outdoor"},
        st \in {"modern", "mid_century"}}

Environments == {Environment(k, i) : k \in BOOLEAN, i \in BOOLEAN}

TaskIds == {NoIds} \cup {[NoIds EXCEPT ![k] = "task-1"] : k \in 1..NumIds}

CreateAnswers ==
    {CreateAnswer(TRUE, h, j, m, er, c, ids) :
        h \in {200, 401, 402, 429, 500}, j \in BOOLEAN, m \in ProviderMessages,
        er \in {Undefined, "quota exceeded"}, c \in {200, 500}, ids \in TaskIds}
    \cup {CreateAnswer(FALSE, 0, FALSE, Undefined, Undefined, 0, NoIds)}

GoodCreateAnswer == CreateAnswer(TRUE, 200, TRUE, Undefined, Undefined, 200, [NoIds EXCEPT ![1] = "task-1"])

HostAnswerSets ==
    {HostAnswers(ir, iok, ij, is, iu, cr, cok, ct) :
        ir \in BOOLEAN, iok \in BOOLEAN, ij \in BOOLEAN, is \in BOOLEAN,
        iu \in {Undefined, "https://i.ibb.co/a.jpg"},
        cr \in BOOLEAN, cok \in BOOLEAN,
        ct \in {"", "https://files.catbox.moe/a.jpg\n", "file too large"}}

Texts(word, padded) == {Undefined, "", " ", word, padded}

RestageArgSets ==
    {RestageArgs(sv, "Bedroom", "Modern", cp, color, cf, "carpet", ai) :
        sv \in {"kie", "gemini"}, cp \in BOOLEAN, color \in Texts("navy", " navy "),
        cf \in BOOLEAN, ai \in Texts("add a rug", " add a rug ")}

InitStage ==
    /\ resp = NoResponse /\ dres = NoResult
    /\ PollIdle /\ AppIdle
    /\ sresp = NoStageResponse /\ cres = NoOutcome /\ pub = NoPublished /\ prompt = NoMsg
    /\ \/ /\ sreq \in StageRequests \cup ClientRequests /\ env \in Environments
          /\ craw = GoodCreateAnswer
          /\ req = GoodRequest /\ raw = BaseRaw /\ host = NoHostAnswers /\ opts = NoRestageArgs
       \/ /\ sreq \in {NoStageRequest, StageRequest("POST", "AAAA", "furnish", JsFalse, JsTrue)}
          /\ env \in Environments /\ craw \in CreateAnswers
          /\ req = GoodRequest /\ raw = BaseRaw /\ host = NoHostAnswers /\ opts = NoRestageArgs
       \/ /\ req \in Requests /\ raw \in BrokenRaws \cup {BaseRaw}
          /\ sreq = NoStageRequest /\ env = Environment(TRUE, TRUE) /\ craw = NoCreateAnswer
          /\ host = NoHostAnswers /\ opts = NoRestageArgs
       \/ /\ host \in HostAnswerSets /\ env \in Environments
          /\ req = GoodRequest /\ raw = BaseRaw
          /\ sreq = NoStageRequest /\ craw = NoCreateAnswer /\ opts = NoRestageArgs
       \/ /\ opts \in RestageArgSets
          /\ req = GoodRequest /\ raw = BaseRaw /\ env = Environment(TRUE, TRUE)
          /\ sreq = NoStageRequest /\ craw = NoCreateAnswer /\ host = NoHostAnswers

stageFrame == UNCHANGED <<statusVars, pollVars, appVars, sreq, env, craw, host, opts>>

\* POST /api/kie-stage
HandleStageRequest ==
    /\ sreq # NoStageRequest /\ sresp = NoStageResponse
    /\ sresp' = StageHandler(sreq, env, craw)
    /\ UNCHANGED <<cres, pub, prompt>>
    /\ stageFrame

\* createKieTask(imageUrl, prompt)
CallCreateKieTask ==
    /\ craw # NoCreateAnswer /\ cres = NoOutcome
    /\ cres' = createKieTask(env, <<"http://x/in.jpg">>, prompt, craw)
    /\ UNCHANGED <<sresp, pub, prompt>>
    /\ stageFrame

\* uploadBase64ToImgBB(base64Data)
CallUploadBase64ToImgBB ==
    /\ host # NoHostAnswers /\ pub = NoPublished
    /\ pub' = uploadBase64ToImgBB(env, host)
    /\ UNCHANGED <<sresp, cres, prompt>>
    /\ stageFrame

\* uploadBase64ToCatbox(base64Data)
CallUploadBase64ToCatbox ==
    /\ host # NoHostAnswers /\ pub = NoPublished
    /\ pub' = uploadBase64ToCatbox(host)
    /\ UNCHANGED <<sresp, cres, prompt>>
    /\ stageFrame

\* the prompt a restage service builds before its first request
BuildPrompt ==
    /\ opts # NoRestageArgs /\ prompt = NoMsg
    /\ prompt' = BuiltPrompt(opts)
    /\ UNCHANGED <<sresp, cres, pub>>
    /\ stageFrame

NextStage ==
    \/ HandleStageRequest
    \/ HandleStatusRequest
    \/ CallCreateKieTask
    \/ CallUploadBase64ToImgBB
    \/ CallUploadBase64ToCatbox
    \/ BuildPrompt

SpecStage == InitStage /\ [][NextStage]_vars

----------------------------------------------------------------------------
(* Claims about the status checks (SpecStatus) *)

CompletedWords == {"success", "successful", "completed"}
FailedWords    == {"fail", "failed"}

\* the status the normalization table of the specification assigns to a state
TableStatus(state) ==
    IF state \in CompletedWords THEN "completed"
    ELSE IF state \in FailedWords THEN "failed"
    ELSE "processing"

\* the handler received a JSON body from the provider
HandlerSawBody == req = GoodRequest /\ resp # NoResponse /\ raw.http # "netfail" /\ raw.json

\* C4: whatever state string the provider's answer carries (also none), the
\* proxy status handler answers HTTP 200 with status completed for success,
\* successful and completed, failed for fail and failed, processing otherwise.
C4_ProxyNormalization ==
    HandlerSawBody =>
        /\ resp.http = 200
        /\ resp.status = TableStatus(RawState(raw))

C4_Witness ==
    /\ HandlerSawBody
    /\ RawState(raw) = "paused"
    /\ resp.status = "processing"

\* the direct client received a well-formed answer with code 200
DirectSawBody ==
    /\ dres # NoResult /\ raw.http = "ok" /\ raw.json /\ raw.code = 200 /\ raw.hasData

\* C5: for every state string returned with code 200, checkKieTaskStatus
\* returns completed for success, successful and completed, failed for fail
\* and failed, processing for every other string.
C5_DirectNormalization ==
    DirectSawBody =>
        /\ dres.kind = "return"
        /\ dres.status = TableStatus(raw.dstate)

----------------------------------------------------------------------------
(* Claims about one pipeline (SpecPoll, FairSpecPoll) *)

Finished       == pc \in {"done", "error"}
PollingStarted == pc \in {"sleeping", "checking", "downloading", "done", "error"}
                  /\ err.kind \notin {"create", "convert"}
OnlyProcessing == reported \subseteq {"processing"}

C1_Budget ==
    /\ checks <= maxAttempts
    /\ (OnlyProcessing /\ PollingStarted /\ pc \notin {"sleeping", "checking"}) =>
          (pc = "error" /\ err.kind = "timeout" /\ checks = maxAttempts)

\* C1: when every status check reports processing, the polling loop issues
\* exactly maxAttempts status checks and then fails with the timeout error;
\* no loop ever issues more than maxAttempts checks, and every pipeline ends.
C1_BoundedPolling == []C1_Budget /\ <>Finished

C1_Witness ==
    /\ entry = "pollKieTask" /\ maxAttempts = 3
    /\ OnlyProcessing /\ checks = 3
    /\ pc = "error" /\ err.kind = "timeout"

\* the failure reason in the provider's answer (data.failMsg)
ProviderReason == raw.fails[1]

\* C2: once a status check has reported failed, the loop has stopped with the
\* task-failed error, the error carries the provider's failure reason, and
\* the loop is not sleeping for or waiting on another status check.
C2_FailureTerminal ==
    "failed" \in reported =>
        /\ pc = "error" /\ err.kind = "failed"
        /\ Truthy(ProviderReason) => \E i \in DOMAIN err.msg : err.msg[i] = ProviderReason

C2_Witness ==
    /\ "failed" \in reported /\ pc = "error"
    /\ entry = "restageImageWithKie" /\ checks = 2 /\ checks < maxAttempts
    /\ ProviderReason = "content policy" /\ err.msg = Msg("content policy")

\* the last status check failed in transport or with a non-2xx HTTP response
TransientCheck ==
    \/ IsDirect /\ dres.kind = "throw" /\ raw.http \in {"netfail", "non2xx"}
    \/ IsProxy /\ resp # NoResponse /\ resp.http \notin 200..299

\* C3: a status check that fails transiently does not abort the polling
\* loop (the pipeline only ever ends in error after it by exhausting the
\* attempt budget), and no loop issues more than maxAttempts checks.
C3_TransientRetried ==
    /\ checks <= maxAttempts
    /\ (TransientCheck /\ pc = "error") => err.kind = "timeout"

\* a well-formed answer of the provider
WellFormed(r) == r.http = "ok" /\ r.json /\ r.code = 200 /\ r.hasData

HoldsImage(r) ==
    \/ r.resultJson.kind = "object" /\ r.resultJson.urls = "list" /\ Len(r.resultJson.list) > 0
    \/ \E i \in 1..NumAlts : r.alts[i].present /\ Len(r.alts[i].val) > 0

\* the provider reported the task as completed, with no result image anywhere
CompletedWithoutImage(r) ==
    WellFormed(r) /\ r.dstate \in CompletedWords /\ ~HoldsImage(r)

\* C6: after the provider reported the task completed without any result
\* image, the pipeline has ended with an error of its own kind: it is not
\* polling on and it has not reported a provider failure.
C6_CompletedWithoutImageIsDistinct ==
    (entry \in {"restageImage", "restageImageWithKie"} /\ CompletedWithoutImage(raw)) =>
        (pc = "error" /\ err.kind = "noimage")

\* the provider reported success with a non-empty resultUrls list
SuccessWithUrls(r) ==
    /\ WellFormed(r) /\ r.dstate = "success"
    /\ r.resultJson.kind = "object" /\ r.resultJson.urls = "list"
    /\ Len(r.resultJson.list) > 0

\* C7: when the provider reports success with a non-empty resultUrls list L,
\* the status check reports completed with exactly L, the poller stops on
\* that check, and the pipeline's result is the first element of L.
C7_ResultRoundTrip ==
    SuccessWithUrls(raw) =>
        LET L == raw.resultJson.list IN
        IF IsProxy THEN
            /\ resp.status = "completed" /\ resp.images = L
            /\ pc \in {"downloading", "done", "error"}
            /\ pc = "error" => err.kind = "download"
            /\ pc = "done" => result = [kind |-> "base64", list |-> <<L[1]>>]
        ELSE
            /\ dres.status = "completed" /\ dres.urls = "list" /\ dres.imageUrls = L
            /\ pc = "done"
            /\ result = IF entry = "pollKieTask" THEN [kind |-> "urls", list |-> L]
                        ELSE [kind |-> "url", list |-> <<L[1]>>]

C7_Witness ==
    /\ entry = "restageImageWithKie" /\ pc = "done"
    /\ SuccessWithUrls(raw) /\ raw.resultJson.list = <<U2, U1>>
    /\ result = [kind |-> "url", list |-> <<U2>>]

----------------------------------------------------------------------------
(* Claims about the App component (SpecApp, FairSpecApp) *)

\* a label that is empty or whitespace-only
Blank(label) == label \in {"", " "}

\* room type "Other - describe" with a blank custom label
Unlabeled(x) == x.roomType = Other /\ Blank(x.customRoomType)

\* the step in which pipeline i leaves processImage through its catch block
FailsAt(i) ==
    \/ pipes[i].phase = "reading" /\ Finish(i, FALSE, "Failed to read file")
    \/ pipes[i].phase = "restaging" /\ \E msg \in ErrorMessages : Finish(i, FALSE, msg)

\* the step in which pipeline i leaves processImage through its try block
SucceedsAt(i) == pipes[i].phase = "restaging" /\ Finish(i, TRUE, Null)

\* what holds right after the batch's pipeline of image k has ended
BatchGoesOn(k) ==
    IF k < Len(batch.snapshot)
    THEN /\ batch'.active /\ batch'.idx = k + 1 /\ isProcessing'
         /\ \E j \in DOMAIN pipes' :
               /\ pipes'[j].origin = "batch" /\ pipes'[j].phase = "reading"
               /\ pipes'[j].id = batch.snapshot[k + 1].id
    ELSE ~batch'.active /\ ~isProcessing'

C8_Step ==
    \A i \in DOMAIN pipes :
        pipes[i].origin = "batch" =>
            /\ FailsAt(i) =>
                  /\ \E j \in DOMAIN images' :
                        /\ images'[j].id = pipes[i].id
                        /\ images'[j].status = "error" /\ images'[j].error # Null
                  /\ BatchGoesOn(batch.idx)
            /\ SucceedsAt(i) =>
                  /\ \E j \in DOMAIN images' :
                        images'[j].id = pipes[i].id /\ images'[j].status = "done"
                  /\ BatchGoesOn(batch.idx)

\* C8: in a Restage All run, when the pipeline of image k fails, image k gets
\* status error and a message, the run goes on to start the pipeline of
\* image k+1 (or, after the last image, clears the busy flag), every pipeline
\* of the run ends in done or error, and isProcessing returns to false.
C8_BatchIndependence == [][C8_Step]_vars /\ (isProcessing ~> ~isProcessing)

C8_Witness ==
    /\ Len(images) = 2 /\ batch.active /\ batch.idx = 2 /\ isProcessing
    /\ images[1].status = "error" /\ images[1].error # Null
    /\ images[2].status = "processing"

BatchStarts == ~batch.active /\ batch'.active

C10_NoCallForUnlabeled ==
    \A i \in DOMAIN pipes : pipes[i].phase = "restaging" => ~Unlabeled(pipes[i])

----------------------------------------------------------------------------
(* Claims about the proxy handlers, createKieTask, the publishers and the  *)
(* prompts (SpecStage)                                                     *)

\* the text holds the part
Contains(text, part) == \E i \in DOMAIN text : text[i] = part

StageAnswered  == sresp # NoStageResponse
StatusAnswered == resp # NoResponse

\* a request the stage handler / the status handler lets through its input checks
StageInputOk  == sreq.method = "POST" /\ sreq.image \notin {Undefined, ""}
StatusInputOk == req.method = "GET" /\ req.hasTaskId

\* C11: every operation that needs a credential fails with a configuration
\* error, without a request to the provider or to the image host, when the
\* credential is not configured: the stage handler and the status handler
\* answer 500 with no provider call, createKieTask throws before it sends its
\* request, and uploadBase64ToImgBB throws before it sends its upload.
C11_ConfigFailFast ==
    /\ (StageAnswered /\ StageInputOk /\ ~env.KIEAI_API_KEY) =>
           (sresp.http = 500 /\ sresp.success = "false" /\ sresp.sent = NoneSent)
    /\ (StatusAnswered /\ StatusInputOk /\ ~req.hasKey) =>
           (resp.http = 500 /\ resp.success = "false" /\ resp.providerCalls = 0)
    /\ (cres # NoOutcome /\ ~env.KIEAI_API_KEY) =>
           (cres.kind = "throw" /\ cres.sent = NoneSent)
    /\ (pub.by = "imgbb" /\ ~env.IMGBB_API_KEY) =>
           (pub.kind = "throw" /\ pub.hosts = <<>>)

----------------------------------------------------------------------------
(* Further claims about the App component (SpecApp) *)

\* C12: the status of an image changes only along idle -> processing ->
\* {done, error}: it becomes done or error only from processing, it becomes
\* processing only in a step of Restage All or of a single-image restage, and
\* it never goes back to idle, whatever the interleaving of the restage
\* invocations and the completions of the pipelines.
C12_Step ==
    \A i \in DOMAIN images : \A j \in DOMAIN images' :
        (images[i].id = images'[j].id /\ images[i].status # images'[j].status) =>
            /\ images'[j].status \in {"done", "error"} => images[i].status = "processing"
            /\ images'[j].status = "processing" => (RestageAll \/ RestageSingle)
            /\ images'[j].status # "idle"

C12_StatusMachine == [][C12_Step]_vars

----------------------------------------------------------------------------
(* Further claims about the proxy handlers (SpecStage) *)

\* C13: each proxy handler answers OPTIONS with 200 and any method other
\* than its own (POST for the stage handler, GET for the status handler) with
\* 405, without a request to the provider, whatever the input and whether or
\* not the credential is configured.
C13_MethodHandling ==
    /\ StageAnswered =>
         /\ sreq.method = "OPTIONS" => (sresp.http = 200 /\ sresp.sent = NoneSent)
         /\ sreq.method \notin {"OPTIONS", "POST"} => (sresp.http = 405 /\ sresp.sent = NoneSent)
    /\ StatusAnswered =>
         /\ req.method = "OPTIONS" => (resp.http = 200 /\ resp.providerCalls = 0)
         /\ req.method \notin {"OPTIONS", "GET"} => (resp.http = 405 /\ resp.providerCalls = 0)

\* an OPTIONS request with neither image nor credential was answered with 200
C13_Witness ==
    /\ StageAnswered /\ sreq.method = "OPTIONS" /\ sreq.image = Undefined
    /\ ~env.KIEAI_API_KEY /\ sresp.http = 200

\* C14: a POST to the stage handler without an image and a GET to the status
\* handler without a taskId are answered with 400 and success false, and no
\* request goes to the provider; this holds also when the credential is not
\* configured (the input check comes before the credential check).
C14_InputValidation ==
    /\ (StageAnswered /\ sreq.method = "POST" /\ sreq.image \in {Undefined, ""}) =>
           (sresp.http = 400 /\ sresp.success = "false" /\ sresp.sent = NoneSent)
    /\ (StatusAnswered /\ req.method = "GET" /\ ~req.hasTaskId) =>
           (resp.http = 400 /\ resp.success = "false" /\ resp.providerCalls = 0)

\* a POST with neither image nor credential was answered with 400
C14_Witness ==
    /\ StageAnswered /\ sreq.method = "POST" /\ sreq.image = Undefined
    /\ ~env.KIEAI_API_KEY /\ sresp.http = 400

\* the request reached the createTask call of the stage handler and the
\* provider answered it with a failure status
CreateTaskFailed ==
    /\ StageAnswered /\ StageInputOk /\ env.KIEAI_API_KEY
    /\ TransformationType(sreq) \in Modes
    /\ craw.reached /\ craw.http \notin 200..299

\* C15: when the provider answers the create-task request with HTTP 401, 402
\* or 429 the stage handler responds with that same status, and with 500 for
\* any other failure status; the body is { success: false, error } in each case.
C15_StageErrorMapping ==
    CreateTaskFailed =>
        /\ sresp.success = "false" /\ sresp.error # NoMsg
        /\ sresp.http = IF craw.http \in {401, 402, 429} THEN craw.http ELSE 500

\* C17: for a transformation_type outside the eight known modes the stage
\* handler responds with an error (success false) and sends no create-task
\* request: no prompt of another mode is built in its place.
C17_UnknownModeIsError ==
    (StageAnswered /\ StageInputOk /\ env.KIEAI_API_KEY /\ TransformationType(sreq) \notin Modes) =>
        (sresp.success = "false" /\ sresp.http >= 400 /\ sresp.sent = NoneSent)

\* a request with the unknown mode "restyle" went through the handler
C17_Witness ==
    /\ StageAnswered /\ StageInputOk /\ env.KIEAI_API_KEY
    /\ sreq.transformation_type = "restyle" /\ sresp.http = 500

----------------------------------------------------------------------------
(* Further claims about the status checks (SpecStatus) *)

\* the provider's answer to the status check is non-2xx or is not JSON
BadStatusAnswer == raw.http = "non2xx" \/ (raw.http = "ok" /\ ~raw.json)

\* C16: a non-2xx or malformed answer of the provider to a status check is
\* reported as an error: the proxy status handler does not answer it with
\* success true / status processing, and checkKieTaskStatus throws.
C16_BadAnswerIsError ==
    /\ (StatusAnswered /\ StatusInputOk /\ req.hasKey /\ BadStatusAnswer) =>
           ~(resp.success = "true" /\ resp.status = "processing")
    /\ (dres # NoResult /\ BadStatusAnswer) => dres.kind = "throw"

----------------------------------------------------------------------------
(* Claims about the publishers (SpecStage) *)

\* the host would accept the upload
ImgBBWorks ==
    /\ env.IMGBB_API_KEY /\ host.imgbb.reached /\ host.imgbb.ok /\ host.imgbb.json
    /\ host.imgbb.success /\ host.imgbb.url # Undefined
CatboxWorks ==
    /\ host.catbox.reached /\ host.catbox.ok
    /\ host.catbox.text = "https://files.catbox.moe/a.jpg\n"

\* C18: publishing through the primary publisher (ImgBB) succeeds with the
\* URL of the first publisher that succeeds: ImgBB's when ImgBB works,
\* otherwise Catbox's, which is tried next; it fails only when both fail.
C18_PublisherFallback ==
    pub.by = "imgbb" =>
        IF ImgBBWorks THEN pub.kind = "return" /\ pub.url = host.imgbb.url
        ELSE IF CatboxWorks THEN
            /\ pub.kind = "return" /\ pub.url = "https://files.catbox.moe/a.jpg"
            /\ Contains(pub.hosts, "catbox")
        ELSE pub.kind = "throw" /\ Contains(pub.hosts, "catbox")

----------------------------------------------------------------------------
(* Claims about the prompts (SpecStage) *)

\* the stage handler built a prompt and sent it
StagePromptSent == StageAnswered /\ sresp.sent # NoneSent
SentPrompt      == sresp.sent[1].prompt

\* C19: in the prompt of the stage handler, for every mode other than empty,
\* enhance and day_to_dusk: with update_flooring false the prompt holds the
\* rule not to change the flooring and no flooring-update clause, with
\* update_flooring true it holds the clause and not the rule; for empty,
\* enhance and day_to_dusk it holds neither.
C19_FlooringRule ==
    StagePromptSent =>
        LET hasRule   == Contains(SentPrompt, FlooringRule)
            hasClause == Contains(SentPrompt, FlooringClauseHead)
            mode      == IF sreq.transformation_type = Undefined THEN "furnish"
                         ELSE sreq.transformation_type
        IN  IF mode \in {"empty", "enhance", "day_to_dusk"} THEN ~hasRule /\ ~hasClause
            ELSE IF sreq.update_flooring = JsTrue THEN hasClause /\ ~hasRule
            ELSE hasRule /\ ~hasClause

\* a renovate prompt without flooring update was sent, holding the rule
C19_Witness ==
    /\ StagePromptSent /\ sreq.transformation_type = "renovate"
    /\ sreq.update_flooring = JsFalse /\ Contains(SentPrompt, FlooringRule)

\* the value is empty or whitespace-only (or missing)
BlankText(v) == v \in {Undefined, "", " "}

\* the trimmed text of a non-blank value of the model
Stripped(v) == IF v \in {"navy", " navy "} THEN "navy" ELSE "add a rug"

\* the part of the text that follows the given part
Follows(text, head, part) ==
    \E i \in DOMAIN text : text[i] = head /\ i < Len(text) /\ text[i + 1] = part

\* C20: in the prompt of restageImageWithKie and of the Gemini restageImage,
\* a blank (empty or whitespace-only) paintColor gives no named-colour
\* repaint clause (the generic repaint clause when changePaint is true) and a
\* blank additionalInstructions gives no user-instructions clause; a
\* non-blank value is inserted trimmed.
C20_BlankOptionsNotInserted ==
    prompt # NoMsg =>
        /\ BlankText(opts.paintColor) =>
              /\ ~Contains(prompt, NamedPaintHead)
              /\ opts.changePaint => Contains(prompt, GenericPaintHead)
        /\ BlankText(opts.additionalInstructions) => ~Contains(prompt, InstructionsHead)
        /\ (~BlankText(opts.paintColor) /\ opts.changePaint) =>
              /\ Follows(prompt, NamedPaintHead, Stripped(opts.paintColor))
              /\ ~Contains(prompt, GenericPaintHead)
        /\ ~BlankText(opts.additionalInstructions) =>
              Follows(prompt, InstructionsHead, Stripped(opts.additionalInstructions))

\* a prompt was built from a whitespace-only colour and padded instructions
C20_Witness ==
    /\ prompt # NoMsg /\ opts.changePaint /\ opts.paintColor = " "
    /\ opts.additionalInstructions = " add a rug "
    /\ Contains(prompt, GenericPaintHead)
    /\ Follows(prompt, InstructionsHead, "add a rug")

----------------------------------------------------------------------------
(* Further claims about one pipeline (SpecPoll) *)

\* MIGRATION notes: "Poll every 2 seconds (max 30 attempts = 60s)"
DocMaxAttempts == 30
DocIntervalMs  == 2000

\* a pipeline that polls with the default parameters
DefaultPolling == entry \in {"restageImageWithKie", "restageImage"}

\* C21: with default parameters the polling loop checks the task status every
\* 2 seconds, for at most 30 attempts, and so gives up after 60 seconds.
C21_DocumentedBudget ==
    DefaultPolling =>
        /\ checks <= DocMaxAttempts
        /\ waited <= checks * DocIntervalMs
        /\ IsDirect => waited = checks * DocIntervalMs
        /\ (pc = "error" /\ err.kind = "timeout") =>
              /\ checks = DocMaxAttempts
              /\ IsDirect => finalErr = <<"Task timeout after ", "60", " seconds">>

----------------------------------------------------------------------------
(* Further claims about the status handler (SpecStatus) *)

\* the candidate result locations in the order of the lookup: resultUrls of
\* resultJson first, then the fallback locations
Candidate(r, i) ==
    IF i = 0 THEN FromResultJson(r)
    ELSE IF AltVisible(r, i) THEN r.alts[i].val ELSE <<>>

\* the first candidate from location i on that holds an image
RECURSIVE FirstNonEmpty(_, _)
FirstNonEmpty(r, i) ==
    IF i > NumAlts THEN <<>>
    ELSE IF Len(Candidate(r, i)) > 0 THEN Candidate(r, i)
    ELSE FirstNonEmpty(r, i + 1)

\* C22: for a completed task the status handler returns the first non-empty
\* image list in the order resultJson.resultUrls, data.result.images,
\* data.result.output_url, data.output_url, data.images, result.images,
\* result.output_url, output_url, images; a location that is present but
\* empty does not stop the search when a later one holds images.
C22_FirstNonEmptyList ==
    (HandlerSawBody /\ resp.status = "completed") =>
        resp.images = FirstNonEmpty(raw, 0)

----------------------------------------------------------------------------
(* Further claims about one pipeline (SpecPoll) *)

\* a step that issues a status check
IssuesCheck == checks' # checks

C23_Step ==
    IssuesCheck =>
        /\ checks' = checks + 1
        /\ pc = "sleeping" /\ pc' = "checking"
        /\ entry # "pollKieTask" => (creates = 1 /\ err = NoErr)

C23_State ==
    /\ pc \in {"start", "converting", "creating"} => checks = 0
    /\ err.kind \in {"create", "convert"} => (checks = 0 /\ pc = "error")

\* C23: in one pipeline the create-task call has completed successfully before
\* the first status check is issued, no status check is issued when
\* create-task fails, and a status check is issued only when the one before it
\* has returned.
C23_PipelineOrdering == [][C23_Step]_vars /\ []C23_State

C23_Witness ==
    /\ entry = "restageImage" /\ creates = 1 /\ err = NoErr
    /\ checks = 2 /\ pc = "checking"
    /\ reported = {"processing"}

----------------------------------------------------------------------------
(* Further claims about the App component (SpecApp) *)

\* the pipelines of the Restage All run that are in flight
BatchPipes == {i \in DOMAIN pipes : pipes[i].origin = "batch"}

\* the step in which pipeline i ends, in done or in error
EndsAt(i) == FailsAt(i) \/ SucceedsAt(i)

C24_State ==
    /\ Cardinality(BatchPipes) <= 1
    /\ batch.active <=> BatchPipes # {}
    /\ \A i \in BatchPipes :
          /\ batch.idx \in DOMAIN batch.snapshot
          /\ pipes[i].id = batch.snapshot[batch.idx].id

C24_Step ==
    batch' # batch =>
        \/ /\ RestageAll /\ ~batch.active
           /\ batch'.active /\ batch'.idx = 1
           /\ Len(batch'.snapshot) = Len(images)
           /\ \A k \in DOMAIN images : batch'.snapshot[k].id = images[k].id
        \/ /\ batch.active
           /\ \E i \in BatchPipes : EndsAt(i)
           /\ \/ batch' = [batch EXCEPT !.idx = batch.idx + 1]
              \/ batch.idx = Len(batch.snapshot) /\ ~batch'.active

\* C24: within one Restage All run the pipeline of image i+1 is started only
\* after the pipeline of image i has ended in done or error, the run never has
\* two of its pipelines in flight, and the images are processed in list order.
C24_SequentialBatch == [][C24_Step]_vars /\ []C24_State

C24_Witness ==
    /\ Len(images) = 2 /\ batch.active /\ batch.idx = 2
    /\ images[1].status = "done"
    /\ \E i \in BatchPipes : pipes[i].id = images[2].id /\ pipes[i].phase = "restaging"

----------------------------------------------------------------------------
(* Further claims about one pipeline (SpecPoll) *)

\* a step that issues a create-task call
IssuesCreate == creates' # creates

C25_Step ==
    /\ IssuesCreate =>
          /\ creates = 0 /\ creates' = 1
          /\ pc \in {"start", "converting"} /\ err = NoErr
    /\ pc = "error" => UNCHANGED <<pc, creates, checks, err>>

C25_State ==
    /\ creates <= 1
    /\ err # NoErr => pc = "error"
    /\ (entry # "pollKieTask" /\ checks > 0) => creates = 1

\* C25: one restage invocation issues at most one create-task call; after a
\* failed create-task, a failed task or a timeout the pipeline has ended in
\* error and creates no other task; and a restage invocation only ever polls
\* a task that it has created itself.
C25_NoResubmission == [][C25_Step]_vars /\ []C25_State

C25_Witness ==
    /\ entry = "restageImage" /\ pc = "error" /\ err.kind = "failed"
    /\ creates = 1 /\ checks = 1

----------------------------------------------------------------------------
(* Further claims about the App component (SpecApp) *)

\* pipeline i works on an image that is no longer in the list
Stale(i) == \A k \in DOMAIN images : images[k].id # pipes[i].id

C26_Step ==
    /\ ClearAll => images' = <<>>
    /\ \A i \in DOMAIN pipes : (Stale(i) /\ EndsAt(i)) => images' = images
    /\ (Len(images) = 0 /\ Len(images') > 0) => Upload

\* C26: when Clear All empties the image list while a pipeline is in flight,
\* the later completion of that pipeline, success or failure, adds no image
\* record and changes no record, and the list stays empty until a new upload.
C26_LateResultsDiscarded == [][C26_Step]_vars

C26_Witness ==
    /\ uploads = 2 /\ Len(images) = 1 /\ images[1].status = "idle"
    /\ Len(pipes) = 1 /\ Stale(1) /\ pipes[1].phase = "restaging"
    /\ pipes[1].id = NewImage(1, 1).id

\* C27: under every interleaving of Restage All, single-image restage and
\* pipeline completions, no image has two pipelines in flight, and an image
\* whose status is done or error has no pipeline in flight that could later
\* overwrite its status or result.
C27_OnePipelinePerImage ==
    /\ \A i, j \in DOMAIN pipes : i # j => pipes[i].id # pipes[j].id
    /\ \A k \in DOMAIN images :
          images[k].status \in {"done", "error"} =>
              \A i \in DOMAIN pipes : pipes[i].id # images[k].id

\* C28: in every reachable state an image with status done has a non-null
\* restagedUrl and a null error, and an image with status error has a
\* non-null error message.
C28_RecordConsistency ==
    \A k \in DOMAIN images :
        /\ images[k].status = "done" =>
              (images[k].restagedUrl # Null /\ images[k].error = Null)
        /\ images[k].status = "error" => images[k].error # Null

\* C29: whenever any image has status processing, isProcessing is true, so
\* that Restage All, Clear All, Download All and the style selector are
\* disabled while any pipeline is in flight.
C29_BusyFlagCoversWork ==
    /\ (\E k \in DOMAIN images : images[k].status = "processing") => isProcessing
    /\ Len(pipes) > 0 => (isProcessing /\ ~CanRestageAll)

\* the fields of a record that a completion may change are as in after
SameButResult(before, after) ==
    after = [before EXCEPT !.status = after.status, !.restagedUrl = after.restagedUrl,
                           !.error = after.error]

C30_Step ==
    \A i \in DOMAIN pipes :
        EndsAt(i) =>
            /\ Len(images') = Len(images)
            /\ \A k \in DOMAIN images :
                  IF images[k].id = pipes[i].id
                  THEN /\ SameButResult(images[k], images'[k])
                       /\ images'[k].status \in {"done", "error"}
                  ELSE images'[k] = images[k]

\* C30: when the pipeline of image X ends, only X's status, restagedUrl and
\* error may change; X's other fields and every field of every other image
\* are unchanged, so the result written by a pipeline of another image that
\* completes concurrently is not lost.
C30_CompletionFrame == [][C30_Step]_vars

C30_Witness ==
    /\ Len(images) = 2 /\ ~batch.active
    /\ images[2].status = "done" /\ images[2].roomType = Other
    /\ images[2].customRoomType = "Den"
    /\ images[1].status = "processing"
    /\ Len(pipes) = 1 /\ pipes[1].origin = "single" /\ pipes[1].id = images[1].id
    /\ pipes[1].phase = "reading"

====
